---- MODULE Spec2Model ----
(***************************************************************************)
(* A model of proxylib: the RequestHandler composition (Filter, Redirect), *)
(* the strategies AddrLookupFilter and ChangeAuthority, and the server     *)
(* loop run_proxy.  Both revisions of the handlers are modelled: the older *)
(* src/handlers.rs (Filter with a handle_blocked callback) and the newer   *)
(* src/handlers/filter.rs + src/handlers/redirect.rs.                      *)
(***************************************************************************)
EXTENDS Naturals, Sequences, FiniteSets, TLC

(***************************************************************************)
(* Bounds of the model.                                                    *)
(***************************************************************************)
\* connections accepted during one run
MaxConns == 2
\* requests received during one run
MaxRequests == 2
\* Filter layers wrapped around the terminal Redirect
MaxFilters == 2
\* applications of change_uri in the rewrite harness
MaxApply == 2

(***************************************************************************)
(* Option<T>: None is the empty tuple, Some(x) the one-element tuple.       *)
(***************************************************************************)
None == <<>>
Some(x) == <<x>>

(***************************************************************************)
(* Socket addresses: IP and port.                                          *)
(***************************************************************************)
IPs == {"127.0.0.1", "10.0.0.5"}
Ports == {9000, 1234}
SocketAddr == [ip : IPs, port : Ports]

(***************************************************************************)
(* http::Uri.  Scheme2::None, the empty Authority and the empty            *)
(* PathAndQuery are the empty string; a PathAndQuery is its path and its   *)
(* optional query.                                                         *)
(***************************************************************************)
Schemes == {"", "http", "https"}
Authorities == {"", "old.example", "new.example", "example.com"}
PathAndQueries == {[path |-> "", query |-> None],
                   [path |-> "/a/b", query |-> Some("q=1")],
                   [path |-> "/a/b/c", query |-> None],
                   [path |-> "*", query |-> None]}
EmptyPathAndQuery == [path |-> "", query |-> None]

\* The request targets the transport can deliver: origin form (and "*"),
\* authority form (CONNECT), absolute form.
ValidUri(u) ==
    IF u.scheme = ""
    THEN \/ u.authority = "" /\ u.path_and_query # EmptyPathAndQuery
         \/ u.authority # "" /\ u.path_and_query = EmptyPathAndQuery
    ELSE u.authority # "" /\ u.path_and_query.path # "*"
Uris == {u \in [scheme : Schemes, authority : Authorities,
                path_and_query : PathAndQueries] : ValidUri(u)}

\* Uri::has_path, Uri::scheme, Uri::authority, Uri::path, Uri::query
Uri_has_path(u) == u.path_and_query # EmptyPathAndQuery \/ u.scheme # ""
Uri_scheme(u) == IF u.scheme = "" THEN None ELSE Some(u.scheme)
Uri_authority(u) == IF u.authority = "" THEN None ELSE Some(u.authority)
Uri_path(u) ==
    IF Uri_has_path(u)
    THEN (IF u.path_and_query.path = "" THEN "/" ELSE u.path_and_query.path)
    ELSE ""
Uri_query(u) == u.path_and_query.query

\* uri.clone().into_parts(): the three components as Options
Uri_into_parts(u) ==
    [scheme |-> Uri_scheme(u),
     authority |-> Uri_authority(u),
     path_and_query |-> IF Uri_has_path(u) THEN Some(u.path_and_query) ELSE None]

\* Uri::from_parts: Err (InvalidUriParts) on an inconsistent combination
Uri_from_parts(p) ==
    IF p.scheme # None
    THEN IF p.authority = None \/ p.path_and_query = None
         THEN [ok |-> FALSE]
         ELSE [ok |-> TRUE,
               uri |-> [scheme |-> p.scheme[1], authority |-> p.authority[1],
                        path_and_query |-> p.path_and_query[1]]]
    ELSE IF p.authority # None /\ p.path_and_query # None
         THEN [ok |-> FALSE]
         ELSE [ok |-> TRUE,
               uri |-> [scheme |-> "",
                        authority |-> IF p.authority = None THEN ""
                                      ELSE p.authority[1],
                        path_and_query |-> IF p.path_and_query = None
                                           THEN EmptyPathAndQuery
                                           ELSE p.path_and_query[1]]]

\* The destinations a ChangeAuthority / Redirect can be configured with
Destinations == {"new.example", "old.example", "example.com"}

\* A rewrite that takes the authority away when it already is the destination
ChangeAuthority_change_uri_toggling(to, u) ==
    LET old == Uri_into_parts(u)
        uri_parts == [old EXCEPT !.authority =
                         IF old.authority = Some(to) THEN None ELSE Some(to)]
        r == Uri_from_parts(uri_parts)
    IN IF r.ok THEN [panic |-> FALSE, uri |-> r.uri]
       ELSE [panic |-> TRUE]

\* ChangeAuthority::change_uri: the rewritten target, or a panic when
\* Uri::from_parts(..).unwrap() fails.
ChangeAuthority_change_uri(to, u) ==
    LET uri_parts == [Uri_into_parts(u) EXCEPT !.authority = Some(to)]
        r == Uri_from_parts(uri_parts)
    IN IF r.ok THEN [panic |-> FALSE, uri |-> r.uri]
       ELSE [panic |-> TRUE]

(***************************************************************************)
(* Requests and responses.                                                 *)
(***************************************************************************)
Methods == {"GET", "POST"}
Bodies == {"body"}
Requests == [method : Methods, uri : Uris, body : Bodies]

\* A lookup that compares the IP and ignores the port
AddrLookupFilter_filter_by_ip(self, from_addr, request) ==
    self.is_blacklist # (\E a \in self.list : a.ip = from_addr.ip)

\* AddrLookupFilter::filter
AddrLookupFilter_filter(self, from_addr, request) ==
    self.is_blacklist # (from_addr \in self.list)


(***************************************************************************)
(* Results and futures.  Result<T, E> is Ok(v) or Err(e).  A handler's     *)
(* Output is a ResponseFuture (Redirect), or Either::Left(Map(inner)) /    *)
(* Either::Right(Ready(value)) (Filter).                                   *)
(***************************************************************************)
Ok(v) == [ok |-> TRUE, val |-> v]
Err(e) == [ok |-> FALSE, err |-> e]

Responses == {"200 OK"}
HyperError == [tag |-> "hyper::Error"]
\* what the outbound client call can resolve to
UpstreamResults == {Ok(resp) : resp \in Responses} \cup {Err(HyperError)}

\* FilterError::Inner, FilterError::FilteredOut of src/handlers/filter.rs,
\* FilterError::FilteredOut of src/handlers.rs (no request)
Inner(e) == [tag |-> "Inner", inner |-> e]

\* A failure that keeps the request with its body taken out
FilteredOut_body_taken(from_addr, request) ==
    [tag |-> "FilteredOut", addr |-> from_addr,
     request |-> [request EXCEPT !.body = ""]]

FilteredOut(from_addr, request) ==
    [tag |-> "FilteredOut", addr |-> from_addr, request |-> request]
FilteredOut_old(from_addr) == [tag |-> "FilteredOut", addr |-> from_addr]

\* A mapping that leaves the inner failure as it is
map_err_Inner_dropped(res) == res

\* res.map_err(FilterError::Inner)
map_err_Inner(res) == IF res.ok THEN res ELSE Err(Inner(res.err))

ResponseFuture == [kind |-> "ResponseFuture"]
Left(fut) == [kind |-> "Left", inner |-> fut]
Right(value) == [kind |-> "Right", value |-> value]

\* The value a handler's future resolves to, given what the outbound call
\* resolves to.
RECURSIVE Resolve(_, _)
Resolve(fut, upstream) ==
    CASE fut.kind = "ResponseFuture" -> upstream
      [] fut.kind = "Left" -> map_err_Inner(Resolve(fut.inner, upstream))
      [] fut.kind = "Right" -> fut.value

\* Whether polling the future awaits the outbound call
RECURSIVE Suspends(_)
Suspends(fut) ==
    CASE fut.kind = "ResponseFuture" -> TRUE
      [] fut.kind = "Left" -> Suspends(fut.inner)
      [] fut.kind = "Right" -> FALSE

(***************************************************************************)
(* Handlers.  A handler is a Redirect or a Filter around an inner handler; *)
(* rev names the revision ("handlers.rs" or "filter.rs").  The synchronous *)
(* part of handle yields the events it performed, in order, and either a   *)
(* panic or the returned future.                                           *)
(***************************************************************************)
Revisions == {"handlers.rs", "filter.rs"}

\* A Redirect that returns a failure when the rewrite fails
Redirect_handle_typed_error(self, depth, from_addr, request, client) ==
    LET r == ChangeAuthority_change_uri(self.to, request.uri)
        called == [ev |-> "handle", kind |-> "Redirect", depth |-> depth,
                   from_addr |-> from_addr, request |-> request,
                   client |-> client]
        changed == [ev |-> "change_uri", depth |-> depth,
                    uri |-> request.uri, panic |-> r.panic]
    IN IF r.panic
       THEN [panic |-> FALSE, log |-> <<called, changed>>,
             fut |-> Right(Err(HyperError))]
       ELSE [panic |-> FALSE,
             log |-> <<called, changed,
                       [ev |-> "client.request", depth |-> depth,
                        request |-> [request EXCEPT !.uri = r.uri],
                        client |-> client]>>,
             fut |-> ResponseFuture]

\* <Redirect<L> as RequestHandler>::handle, src/handlers/redirect.rs
Redirect_handle(self, depth, from_addr, request, client) ==
    LET r == ChangeAuthority_change_uri(self.to, request.uri)
        called == [ev |-> "handle", kind |-> "Redirect", depth |-> depth,
                   from_addr |-> from_addr, request |-> request,
                   client |-> client]
        changed == [ev |-> "change_uri", depth |-> depth,
                    uri |-> request.uri, panic |-> r.panic]
    IN IF r.panic
       THEN [panic |-> TRUE, log |-> <<called, changed>>]
       ELSE [panic |-> FALSE,
             log |-> <<called, changed,
                       [ev |-> "client.request", depth |-> depth,
                        request |-> [request EXCEPT !.uri = r.uri],
                        client |-> client]>>,
             fut |-> ResponseFuture]

\* <Redirect as RequestHandler>::handle, src/handlers.rs
Redirect_handle_old(self, depth, from_addr, request, client) ==
    LET uri_parts == [Uri_into_parts(request.uri)
                        EXCEPT !.authority = Some(self.to)]
        r == Uri_from_parts(uri_parts)
        called == [ev |-> "handle", kind |-> "Redirect", depth |-> depth,
                   from_addr |-> from_addr, request |-> request,
                   client |-> client]
        changed == [ev |-> "change_uri", depth |-> depth,
                    uri |-> request.uri, panic |-> ~r.ok]
    IN IF ~r.ok
       THEN [panic |-> TRUE, log |-> <<called, changed>>]
       ELSE [panic |-> FALSE,
             log |-> <<called, changed,
                       [ev |-> "client.request", depth |-> depth,
                        request |-> [request EXCEPT !.uri = r.uri],
                        client |-> client]>>,
             fut |-> ResponseFuture]

RECURSIVE Handle(_, _, _, _, _)

\* A Filter that hands the request to the inner handler before it looks at
\* the decision
Filter_handle_forwarding(self, depth, from_addr, request, client) ==
    LET called == [ev |-> "handle", kind |-> "Filter", depth |-> depth,
                   from_addr |-> from_addr, request |-> request,
                   client |-> client]
        admitted == AddrLookupFilter_filter(self.logic, from_addr, request)
        filtered == [ev |-> "filter", depth |-> depth,
                     from_addr |-> from_addr, request |-> request,
                     admitted |-> admitted]
        in == Handle(self.inner, depth + 1, from_addr, request, client)
    IN IF in.panic
       THEN [panic |-> TRUE, log |-> <<called, filtered>> \o in.log]
       ELSE IF admitted
       THEN [panic |-> FALSE, log |-> <<called, filtered>> \o in.log,
             fut |-> Left(in.fut)]
       ELSE [panic |-> FALSE, log |-> <<called, filtered>> \o in.log,
             fut |-> Right(Err(FilteredOut(from_addr, request)))]

\* A Filter that hands the inner handler the unspecified address
Filter_handle_losing_addr(self, depth, from_addr, request, client) ==
    LET called == [ev |-> "handle", kind |-> "Filter", depth |-> depth,
                   from_addr |-> from_addr, request |-> request,
                   client |-> client]
        admitted == AddrLookupFilter_filter(self.logic, from_addr, request)
        filtered == [ev |-> "filter", depth |-> depth,
                     from_addr |-> from_addr, request |-> request,
                     admitted |-> admitted]
    IN IF admitted
       THEN LET in == Handle(self.inner, depth + 1,
                             [ip |-> "0.0.0.0", port |-> 0], request, client)
            IN IF in.panic
               THEN [panic |-> TRUE, log |-> <<called, filtered>> \o in.log]
               ELSE [panic |-> FALSE, log |-> <<called, filtered>> \o in.log,
                     fut |-> Left(in.fut)]
       ELSE [panic |-> FALSE, log |-> <<called, filtered>>,
             fut |-> Right(Err(FilteredOut(from_addr, request)))]

\* A Filter whose rejection reports an entry of its list, not the caller
Filter_handle_reporting_entry(self, depth, from_addr, request, client) ==
    LET called == [ev |-> "handle", kind |-> "Filter", depth |-> depth,
                   from_addr |-> from_addr, request |-> request,
                   client |-> client]
        admitted == AddrLookupFilter_filter(self.logic, from_addr, request)
        filtered == [ev |-> "filter", depth |-> depth,
                     from_addr |-> from_addr, request |-> request,
                     admitted |-> admitted]
    IN IF admitted
       THEN LET in == Handle(self.inner, depth + 1, from_addr, request, client)
            IN IF in.panic
               THEN [panic |-> TRUE, log |-> <<called, filtered>> \o in.log]
               ELSE [panic |-> FALSE, log |-> <<called, filtered>> \o in.log,
                     fut |-> Left(in.fut)]
       ELSE [panic |-> FALSE, log |-> <<called, filtered>>,
             fut |-> Right(Err(FilteredOut(
                        IF self.logic.list = {} THEN from_addr
                        ELSE CHOOSE a \in self.logic.list : TRUE, request)))]

\* <Filter<H, F> as RequestHandler>::handle, src/handlers/filter.rs
Filter_handle(self, depth, from_addr, request, client) ==
    LET called == [ev |-> "handle", kind |-> "Filter", depth |-> depth,
                   from_addr |-> from_addr, request |-> request,
                   client |-> client]
        admitted == AddrLookupFilter_filter(self.logic, from_addr, request)
        filtered == [ev |-> "filter", depth |-> depth,
                     from_addr |-> from_addr, request |-> request,
                     admitted |-> admitted]
    IN IF admitted
       THEN LET in == Handle(self.inner, depth + 1, from_addr, request, client)
            IN IF in.panic
               THEN [panic |-> TRUE, log |-> <<called, filtered>> \o in.log]
               ELSE [panic |-> FALSE, log |-> <<called, filtered>> \o in.log,
                     fut |-> Left(in.fut)]
       ELSE [panic |-> FALSE, log |-> <<called, filtered>>,
             fut |-> Right(Err(FilteredOut(from_addr, request)))]

\* A Filter that calls handle_blocked for every request
Filter_handle_old_always_blocked(self, depth, from_addr, request, client) ==
    LET called == [ev |-> "handle", kind |-> "Filter", depth |-> depth,
                   from_addr |-> from_addr, request |-> request,
                   client |-> client]
        admitted == AddrLookupFilter_filter(self.logic, from_addr, request)
        filtered == [ev |-> "filter", depth |-> depth,
                     from_addr |-> from_addr, request |-> request,
                     admitted |-> admitted]
        blocked == [ev |-> "handle_blocked", depth |-> depth,
                    from_addr |-> from_addr, request |-> request]
        pre == IF self.handle_blocked THEN <<called, filtered, blocked>>
               ELSE <<called, filtered>>
    IN IF admitted
       THEN LET in == Handle(self.inner, depth + 1, from_addr, request, client)
            IN IF in.panic
               THEN [panic |-> TRUE, log |-> pre \o in.log]
               ELSE [panic |-> FALSE, log |-> pre \o in.log,
                     fut |-> Left(in.fut)]
       ELSE [panic |-> FALSE, log |-> pre,
             fut |-> Right(Err(FilteredOut_old(from_addr)))]

\* <Filter<H, F, G> as RequestHandler>::handle, src/handlers.rs
Filter_handle_old(self, depth, from_addr, request, client) ==
    LET called == [ev |-> "handle", kind |-> "Filter", depth |-> depth,
                   from_addr |-> from_addr, request |-> request,
                   client |-> client]
        admitted == AddrLookupFilter_filter(self.logic, from_addr, request)
        filtered == [ev |-> "filter", depth |-> depth,
                     from_addr |-> from_addr, request |-> request,
                     admitted |-> admitted]
        blocked == [ev |-> "handle_blocked", depth |-> depth,
                    from_addr |-> from_addr, request |-> request]
    IN IF admitted
       THEN LET in == Handle(self.inner, depth + 1, from_addr, request, client)
            IN IF in.panic
               THEN [panic |-> TRUE, log |-> <<called, filtered>> \o in.log]
               ELSE [panic |-> FALSE, log |-> <<called, filtered>> \o in.log,
                     fut |-> Left(in.fut)]
       ELSE [panic |-> FALSE,
             log |-> IF self.handle_blocked
                     THEN <<called, filtered, blocked>>
                     ELSE <<called, filtered>>,
             fut |-> Right(Err(FilteredOut_old(from_addr)))]

\* RequestHandler::handle, dispatched on the handler's type
Handle(h, depth, from_addr, request, client) ==
    CASE h.kind = "Redirect" /\ h.rev = "filter.rs" ->
            Redirect_handle(h, depth, from_addr, request, client)
      [] h.kind = "Redirect" /\ h.rev = "handlers.rs" ->
            Redirect_handle_old(h, depth, from_addr, request, client)
      [] h.kind = "Filter" /\ h.rev = "filter.rs" ->
            Filter_handle(h, depth, from_addr, request, client)
      [] h.kind = "Filter" /\ h.rev = "handlers.rs" ->
            Filter_handle_old(h, depth, from_addr, request, client)

(***************************************************************************)
(* The configurations a run is started with.                               *)
(***************************************************************************)
Local == [ip |-> "127.0.0.1", port |-> 9000]
Remote == [ip |-> "10.0.0.5", port |-> 1234]
\* the address sets of the configured filters
Lists == {{Local}}
\* the peers that connect
Peers == {Local, Remote}
\* the destination of the configured Redirect
ServedDestinations == {"new.example"}
\* the requests the peers send: origin form and absolute form
OriginUri == [scheme |-> "", authority |-> "",
              path_and_query |-> [path |-> "/a/b/c", query |-> None]]
AbsoluteUri == [scheme |-> "http", authority |-> "old.example",
                path_and_query |-> [path |-> "/a/b", query |-> Some("q=1")]]
ServedRequests == {[method |-> "GET", uri |-> OriginUri, body |-> "body"],
                   [method |-> "POST", uri |-> AbsoluteUri, body |-> "body"]}

\* Redirect::change_authority (filter.rs revision) / Redirect { to }
Redirects(rev) ==
    {[kind |-> "Redirect", rev |-> rev, to |-> to] : to \in ServedDestinations}

\* Filter { inner, logic, handle_blocked }: handle_blocked exists in
\* src/handlers.rs only
FiltersAround(rev, inners) ==
    {[kind |-> "Filter", rev |-> rev, inner |-> h,
      logic |-> [list |-> S, is_blacklist |-> b], handle_blocked |-> g] :
        h \in inners, S \in Lists, b \in BOOLEAN,
        g \in IF rev = "handlers.rs" THEN BOOLEAN ELSE {FALSE}}

RECURSIVE HandlersOfDepth(_, _)
HandlersOfDepth(rev, n) ==
    IF n = 0 THEN Redirects(rev)
    ELSE FiltersAround(rev, HandlersOfDepth(rev, n - 1))

Handlers ==
    UNION {HandlersOfDepth(rev, n) : rev \in Revisions, n \in 0..MaxFilters}

(***************************************************************************)
(* State.                                                                  *)
(*   handler  config.request_handler, the root handler                     *)
(*   pc       where run_proxy stands: "bind" (line 59), "from_tcp" (line   *)
(*            60), "serving" (awaiting the server, line 77), "returned"    *)
(*   result   what run_proxy resolved to, "pending" until it does          *)
(*   clients  the number of Client::new() calls; the client handed to the  *)
(*            handlers is identified by that number                        *)
(*   conns    the accepted connections: the remote address of each         *)
(*   reqs     the requests received, each with the connection it came on,  *)
(*            what handle did, the future it returned, what the outbound   *)
(*            call resolved to, and the outcome of the service call        *)
(*   call     the strategy call in progress in the harness specifications  *)
(***************************************************************************)
VARIABLES handler, pc, result, clients, conns, reqs, call

vars == <<handler, pc, result, clients, conns, reqs, call>>

NoCall == [fn |-> "none"]

\* Before run_proxy is polled
NotStarted ==
    /\ pc = "bind"
    /\ result = "pending"
    /\ clients = 0
    /\ conns = <<>>
    /\ reqs = <<>>

Init ==
    /\ handler \in Handlers
    /\ NotStarted
    /\ call = NoCall

\* A run_proxy that creates the client before it binds
Bind_after_client ==
    /\ pc = "bind"
    /\ clients' = clients + 1
    /\ \E bound \in BOOLEAN :
        IF bound
        THEN pc' = "from_tcp" /\ result' = result
        ELSE pc' = "returned" /\ result' = "Err(BindListener)"
    /\ UNCHANGED <<handler, conns, reqs, call>>

\* line 59: TcpListener::bind(config.listen_on).map_err(BindListener)?
Bind ==
    /\ pc = "bind"
    /\ \E bound \in BOOLEAN :
        IF bound
        THEN pc' = "from_tcp" /\ result' = result
        ELSE pc' = "returned" /\ result' = "Err(BindListener)"
    /\ UNCHANGED <<handler, clients, conns, reqs, call>>

\* lines 60-74: Server::from_tcp(listener).map_err(StartServer)?, then the
\* client is created and leaked, the service is made and the server built
StartServer ==
    /\ pc = "from_tcp"
    /\ \E started \in BOOLEAN :
        IF started
        THEN pc' = "serving" /\ result' = result /\ clients' = clients + 1
        ELSE pc' = "returned" /\ result' = "Err(StartServer)"
             /\ clients' = clients
    /\ UNCHANGED <<handler, conns, reqs, call>>

\* lines 64-72, the make_service_fn closure: a connection is accepted and
\* its remote address read
Accept ==
    /\ pc = "serving"
    /\ Len(conns) < MaxConns
    /\ \E addr \in Peers : conns' = Append(conns, addr)
    /\ UNCHANGED <<handler, pc, result, clients, reqs, call>>

\* A service whose lookup takes the caller's address out of the root
\* Filter's list
Serve_consuming_list ==
    /\ pc = "serving"
    /\ Len(reqs) < MaxRequests
    /\ \E c \in 1..Len(conns), req \in ServedRequests :
        LET h == Handle(handler, 0, conns[c], req, clients)
            rec == [conn |-> c, request |-> req, log |-> h.log,
                    upstream |-> None]
        IN /\ reqs' = Append(reqs,
                     IF h.panic
                     THEN rec @@ [state |-> "panicked", fut |-> None,
                                  outcome |-> None]
                     ELSE IF Suspends(h.fut)
                     THEN rec @@ [state |-> "pending", fut |-> Some(h.fut),
                                  outcome |-> None]
                     ELSE rec @@ [state |-> "done", fut |-> Some(h.fut),
                                  outcome |-> Some(Resolve(h.fut, None))])
           /\ handler' = IF handler.kind = "Filter"
                         THEN [handler EXCEPT
                                 !.logic.list = handler.logic.list \ {conns[c]}]
                         ELSE handler
    /\ UNCHANGED <<pc, result, clients, conns, call>>

\* A service that hands every request the address of the connection accepted
\* last
Serve_with_last_addr ==
    /\ pc = "serving"
    /\ Len(reqs) < MaxRequests
    /\ \E c \in 1..Len(conns), req \in ServedRequests :
        LET h == Handle(handler, 0, conns[Len(conns)], req, clients)
            rec == [conn |-> c, request |-> req, log |-> h.log,
                    upstream |-> None]
        IN reqs' = Append(reqs,
                     IF h.panic
                     THEN rec @@ [state |-> "panicked", fut |-> None,
                                  outcome |-> None]
                     ELSE IF Suspends(h.fut)
                     THEN rec @@ [state |-> "pending", fut |-> Some(h.fut),
                                  outcome |-> None]
                     ELSE rec @@ [state |-> "done", fut |-> Some(h.fut),
                                  outcome |-> Some(Resolve(h.fut, None))])
    /\ UNCHANGED <<handler, pc, result, clients, conns, call>>

\* A service that makes a client of its own for every request
Serve_with_new_client ==
    /\ pc = "serving"
    /\ Len(reqs) < MaxRequests
    /\ clients' = clients + 1
    /\ \E c \in 1..Len(conns), req \in ServedRequests :
        LET h == Handle(handler, 0, conns[c], req, clients + 1)
            rec == [conn |-> c, request |-> req, log |-> h.log,
                    upstream |-> None]
        IN reqs' = Append(reqs,
                     IF h.panic
                     THEN rec @@ [state |-> "panicked", fut |-> None,
                                  outcome |-> None]
                     ELSE IF Suspends(h.fut)
                     THEN rec @@ [state |-> "pending", fut |-> Some(h.fut),
                                  outcome |-> None]
                     ELSE rec @@ [state |-> "done", fut |-> Some(h.fut),
                                  outcome |-> Some(Resolve(h.fut, None))])
    /\ UNCHANGED <<handler, pc, result, conns, call>>

\* line 69, the service_fn closure: handler.handle(addr, req, client) for a
\* request received on connection c.  A returned future that awaits nothing
\* (Either::Right(Ready)) is resolved when the call returns; a panic unwinds
\* out of the call and leaves no outcome.
Serve ==
    /\ pc = "serving"
    /\ Len(reqs) < MaxRequests
    /\ \E c \in 1..Len(conns), req \in ServedRequests :
        LET h == Handle(handler, 0, conns[c], req, clients)
            rec == [conn |-> c, request |-> req, log |-> h.log,
                    upstream |-> None]
        IN reqs' = Append(reqs,
                     IF h.panic
                     THEN rec @@ [state |-> "panicked", fut |-> None,
                                  outcome |-> None]
                     ELSE IF Suspends(h.fut)
                     THEN rec @@ [state |-> "pending", fut |-> Some(h.fut),
                                  outcome |-> None]
                     ELSE rec @@ [state |-> "done", fut |-> Some(h.fut),
                                  outcome |-> Some(Resolve(h.fut, None))])
    /\ UNCHANGED <<handler, pc, result, clients, conns, call>>

\* A completion whose failure is returned by the server future as well
Complete_ending_loop ==
    /\ pc = "serving"
    /\ \E r \in 1..Len(reqs), upstream \in UpstreamResults :
        LET res == Resolve(reqs[r].fut[1], upstream)
        IN /\ reqs[r].state = "pending"
           /\ reqs' = [reqs EXCEPT
                        ![r].state = "done",
                        ![r].upstream = Some(upstream),
                        ![r].outcome = Some(res)]
           /\ IF res.ok
              THEN pc' = pc /\ result' = result
              ELSE pc' = "returned" /\ result' = "Err(Serve)"
    /\ UNCHANGED <<handler, clients, conns, call>>

\* The outbound call a pending future awaits resolves; the outcome is the
\* request's response or the error of its service call.
Complete ==
    /\ pc = "serving"
    /\ \E r \in 1..Len(reqs), upstream \in UpstreamResults :
        /\ reqs[r].state = "pending"
        /\ reqs' = [reqs EXCEPT
                     ![r].state = "done",
                     ![r].upstream = Some(upstream),
                     ![r].outcome = Some(Resolve(reqs[r].fut[1], upstream))]
    /\ UNCHANGED <<handler, pc, result, clients, conns, call>>

\* A run_proxy that binds again when the server quits with an error
ServerQuit_restarting ==
    /\ pc = "serving"
    /\ \E res \in {"Ok", "Err(Serve)"} :
        IF res = "Ok"
        THEN pc' = "returned" /\ result' = res
        ELSE pc' = "bind" /\ result' = result
    /\ UNCHANGED <<handler, clients, conns, reqs, call>>

\* line 77: server.await.map_err(ProxyError::Serve), the server quits
ServerQuit ==
    /\ pc = "serving"
    /\ \E res \in {"Ok", "Err(Serve)"} : result' = res
    /\ pc' = "returned"
    /\ UNCHANGED <<handler, clients, conns, reqs, call>>

Next == Bind \/ StartServer \/ Accept \/ Serve \/ Complete \/ ServerQuit

Spec == Init /\ [][Next]_vars

\* The state of the server loop
State ==
    CASE pc = "bind" -> "Unbound"
      [] pc = "from_tcp" -> "Bound"
      [] pc = "serving" -> "Serving"
      [] pc = "returned" -> IF result = "Ok" THEN "Stopped" ELSE "Failed"

(***************************************************************************)
(* What the claims speak of.                                               *)
(***************************************************************************)
\* The handler d layers below h, and the future d layers below fut
RECURSIVE LayerAt(_, _)
LayerAt(h, d) == IF d = 0 THEN h ELSE LayerAt(h.inner, d - 1)

RECURSIVE Depth(_)
Depth(h) == IF h.kind = "Redirect" THEN 0 ELSE 1 + Depth(h.inner)

RECURSIVE FutAt(_, _)
FutAt(fut, d) == IF d = 0 THEN fut ELSE FutAt(fut.inner, d - 1)

\* The events of request r of one kind at one depth
EventsAt(r, ev, d) ==
    SelectSeq(reqs[r].log, LAMBDA e : e.ev = ev /\ e.depth = d)

\* The Filter layers whose handle was called for request r
FilterCalls(r) ==
    {d \in 0..Depth(handler) :
        LayerAt(handler, d).kind = "Filter" /\ EventsAt(r, "handle", d) # <<>>}

\* The decision of the Filter at depth d on request r, from its
\* configuration: whitelist admits members, blacklist admits the others
Admits(r, d) ==
    LET f == LayerAt(handler, d).logic
        a == EventsAt(r, "handle", d)[1].from_addr
    IN IF f.is_blacklist THEN a \notin f.list ELSE a \in f.list

\* The caller address of request r: the remote address of its connection
Caller(r) == conns[reqs[r].conn]

(***************************************************************************)
(* Claims about Filter (specification Spec).                               *)
(***************************************************************************)
\* C2: when the logic of a Filter rejects a request, the handle of its inner
\* handler is not invoked for that request, and no outbound call through the
\* client is made for it.
C2_RejectedNeverForwarded ==
    \A r \in 1..Len(reqs) : \A d \in FilterCalls(r) :
        ~Admits(r, d) =>
            /\ EventsAt(r, "handle", d + 1) = <<>>
            /\ \A i \in 1..Len(reqs[r].log) :
                  reqs[r].log[i].ev # "client.request"

\* a request rejected by a whitelist around a Redirect, after an admitted one
C2_Witness ==
    \E r, q \in 1..Len(reqs) :
        /\ q < r
        /\ handler.kind = "Filter" /\ handler.inner.kind = "Redirect"
        /\ ~handler.logic.is_blacklist
        /\ Caller(r) = Remote /\ ~Admits(r, 0)
        /\ Admits(q, 0) /\ reqs[q].state = "done"

\* What calling the inner handler of the root Filter directly on request r
\* does
Direct(r) ==
    Handle(handler.inner, 1, Caller(r), reqs[r].request, clients)

\* C3: for a request admitted by a Filter around H, the Filter invokes
\* H.handle once, with the same caller address, the same request and the
\* same client, what follows is what H does when called directly, and the
\* Filter's result is H's result: Ok(response) unchanged, Err(e) as
\* Err(Inner(e)), never FilteredOut.
C3_AdmittedPassThrough ==
    \A r \in 1..Len(reqs) :
        (handler.kind = "Filter" /\ Admits(r, 0)) =>
            LET direct == Direct(r)
                outer == EventsAt(r, "handle", 0)[1]
                inners == EventsAt(r, "handle", 1)
            IN /\ Len(inners) = 1
               /\ outer.from_addr = Caller(r)
               /\ outer.request = reqs[r].request
               /\ inners[1].from_addr = outer.from_addr
               /\ inners[1].request = outer.request
               /\ inners[1].client = outer.client
               /\ SubSeq(reqs[r].log, 3, Len(reqs[r].log)) = direct.log
               /\ (reqs[r].state = "panicked") = direct.panic
               /\ reqs[r].state # "panicked" =>
                     reqs[r].fut = Some(Left(direct.fut))
               /\ reqs[r].state = "done" =>
                     LET res == Resolve(direct.fut,
                                        IF reqs[r].upstream = None THEN None
                                        ELSE reqs[r].upstream[1])
                         out == reqs[r].outcome[1]
                     IN /\ res.ok => out = res
                        /\ ~res.ok => out = Err(Inner(res.err))
                        /\ ~out.ok => out.err.tag # "FilteredOut"

\* an admitted request whose inner handler failed
C3_Witness ==
    \E r \in 1..Len(reqs) :
        /\ handler.kind = "Filter" /\ Admits(r, 0)
        /\ reqs[r].state = "done"
        /\ reqs[r].upstream = Some(Err(HyperError))
        /\ reqs[r].outcome = Some(Err(Inner(HyperError)))

\* C4: a request rejected by a Filter gets an already resolved result,
\* Err(FilteredOut(a, ..)) with a the caller address passed to handle, and
\* the same result with and without a rejection callback.
C4_RejectedResolvedAtOnce ==
    \A r \in 1..Len(reqs) : \A d \in FilterCalls(r) :
        ~Admits(r, d) =>
            /\ reqs[r].state = "done"
            /\ LET fut == FutAt(reqs[r].fut[1], d)
                   a == EventsAt(r, "handle", d)[1].from_addr
               IN /\ fut.kind = "Right"
                  /\ ~fut.value.ok
                  /\ fut.value.err.tag = "FilteredOut"
                  /\ fut.value.err.addr = a
                  /\ a = Caller(r)
                  /\ fut.value.err =
                        IF handler.rev = "filter.rs"
                        THEN FilteredOut(a, reqs[r].request)
                        ELSE FilteredOut_old(a)

\* a request rejected by the root Filter
C4_Witness ==
    \E r \in 1..Len(reqs) :
        /\ 0 \in FilterCalls(r) /\ ~Admits(r, 0)
        /\ reqs[r].outcome # None
        /\ ~reqs[r].outcome[1].ok
        /\ reqs[r].outcome[1].err.tag = "FilteredOut"
        /\ reqs[r].outcome[1].err.addr = Remote

\* C5: in the Filter with a rejection callback, a rejected request has the
\* callback, if configured, invoked once, with the caller address and the
\* request as handle received them, before handle returns; an admitted
\* request has it invoked zero times.
C5_CallbackOncePerRejection ==
    \A r \in 1..Len(reqs) : \A d \in FilterCalls(r) :
        LayerAt(handler, d).rev = "handlers.rs" =>
            LET n == Len(EventsAt(r, "handle_blocked", d))
                called == EventsAt(r, "handle", d)[1]
            IN IF ~Admits(r, d) /\ LayerAt(handler, d).handle_blocked
               THEN /\ n = 1
                    /\ EventsAt(r, "handle_blocked", d)[1].from_addr
                          = called.from_addr
                    /\ EventsAt(r, "handle_blocked", d)[1].request
                          = called.request
                    /\ called.from_addr = Caller(r)
                    /\ called.request = reqs[r].request
                    /\ reqs[r].log[Len(reqs[r].log)].ev = "handle_blocked"
               ELSE n = 0

\* a rejected request whose callback ran, and an admitted one beside it
C5_Witness ==
    \E r, q \in 1..Len(reqs) :
        /\ handler.rev = "handlers.rs" /\ handler.kind = "Filter"
        /\ handler.handle_blocked
        /\ ~Admits(r, 0) /\ Len(EventsAt(r, "handle_blocked", 0)) = 1
        /\ Admits(q, 0)

(***************************************************************************)
(* Claims about Redirect and the server loop (specification Spec).         *)
(***************************************************************************)
\* C8: for every request passed to Redirect.handle, change_uri is applied
\* once and then one outbound request is issued through the client, with the
\* rewritten target and the method and body unchanged; Redirect fails only
\* with the client's failure.
C8_RedirectForwardsOnce ==
    \A r \in 1..Len(reqs) : \A d \in 0..Depth(handler) :
        (LayerAt(handler, d).kind = "Redirect"
            /\ EventsAt(r, "handle", d) # <<>>) =>
            LET sent == EventsAt(r, "client.request", d)
                got == EventsAt(r, "handle", d)[1].request
            IN /\ Len(EventsAt(r, "change_uri", d)) = 1
               /\ reqs[r].state # "panicked"
               /\ Len(sent) = 1
               /\ sent[1].request.method = got.method
               /\ sent[1].request.body = got.body
               /\ Uri_authority(sent[1].request.uri)
                     = Some(LayerAt(handler, d).to)

\* C9: when binding fails run_proxy resolves to Err(BindListener), and on
\* that run no connection is accepted, the handler is not invoked and no
\* client is created; a failure to start the server resolves to
\* Err(StartServer) before any connection is accepted.  A run that returned
\* without serving returned one of the two.
C9_BindOrStartFailure ==
    /\ result \in {"Err(BindListener)", "Err(StartServer)"} =>
          /\ pc = "returned"
          /\ conns = <<>>
          /\ reqs = <<>>
          /\ clients = 0
    /\ (pc = "returned" /\ clients = 0) =>
          result \in {"Err(BindListener)", "Err(StartServer)"}

\* the listen address could not be bound
C9_Witness == pc = "returned" /\ result = "Err(BindListener)"

\* C10: the state of the server loop moves along Unbound -> Bound -> Serving
\* -> {Stopped | Failed}, a failure to bind or to start leading to Failed;
\* connections are accepted and requests handled in Serving only; no state is
\* entered again; Serving -> Failed makes run_proxy resolve to Err(Serve);
\* run_proxy has resolved exactly when the loop is Stopped or Failed.
C10_StateMachine ==
    [][/\ State' # State =>
            <<State, State'>> \in {<<"Unbound", "Bound">>,
                                   <<"Bound", "Serving">>,
                                   <<"Serving", "Stopped">>,
                                   <<"Serving", "Failed">>,
                                   <<"Unbound", "Failed">>,
                                   <<"Bound", "Failed">>}
       /\ (reqs' # reqs \/ conns' # conns) =>
            (State = "Serving" /\ State' = "Serving")
       /\ (State = "Serving" /\ State' = "Failed") => result' = "Err(Serve)"
       /\ (State = "Serving" /\ State' = "Stopped") => result' = "Ok"
       /\ (result' # "pending") <=> (State' \in {"Stopped", "Failed"})
       /\ State \notin {"Stopped", "Failed"}
      ]_vars

\* the server quit with an error after it had handled a request
C10_Witness ==
    /\ State = "Failed" /\ result = "Err(Serve)"
    /\ \E r \in 1..Len(reqs) : reqs[r].state = "done"

(***************************************************************************)
(* Claims about the shared client and the connections (specification       *)
(* Spec).                                                                  *)
(***************************************************************************)
\* The clients that handle calls and outbound calls of request r were given
ClientsSeen(r) ==
    {reqs[r].log[i].client :
        i \in {j \in 1..Len(reqs[r].log) :
                  reqs[r].log[j].ev \in {"handle", "client.request"}}}

\* C11: within one run the outbound client is created once, and every
\* invocation of the root handler, on every connection and for every request,
\* receives that same client; it is never created again while the loop runs.
C11_OneSharedClient ==
    /\ clients <= 1
    /\ pc = "serving" => clients = 1
    /\ \A r \in 1..Len(reqs) : ClientsSeen(r) = {1}

\* two requests on two connections, both awaiting the one client
C11_Witness ==
    /\ Len(reqs) = 2
    /\ reqs[1].conn # reqs[2].conn
    /\ reqs[1].state = "pending" /\ reqs[2].state = "pending"
    /\ ClientsSeen(1) = {clients} /\ ClientsSeen(2) = {clients}

\* The root handler was invoked once for request r, with the remote address
\* of the connection the request came on
HandledOnceWithOwnAddr(r) ==
    LET called == EventsAt(r, "handle", 0)
    IN /\ Len(called) = 1
       /\ called[1].from_addr = conns[reqs[r].conn]
       /\ called[1].request = reqs[r].request

\* C12: the remote address of an accepted connection is read once, when it
\* is accepted, and every request received on that connection invokes the
\* root handler once with that address, never with the address of another
\* connection, whatever else is in flight.
C12_OwnRemoteAddr ==
    [][/\ \A c \in 1..Len(conns) : Len(conns') >= c /\ conns'[c] = conns[c]
       /\ \A r \in 1..Len(reqs) :
            Len(reqs') >= r /\ reqs'[r].conn = reqs[r].conn
                            /\ reqs'[r].log = reqs[r].log
       /\ \A r \in 1..Len(reqs') : HandledOnceWithOwnAddr(r)'
      ]_vars

\* two requests in flight on two connections with different remote addresses
C12_Witness ==
    /\ Len(reqs) = 2
    /\ reqs[1].conn # reqs[2].conn
    /\ conns[reqs[1].conn] # conns[reqs[2].conn]
    /\ reqs[1].state = "pending" /\ reqs[2].state = "pending"
    /\ HandledOnceWithOwnAddr(1) /\ HandledOnceWithOwnAddr(2)

\* The Redirect was reached by request r
RedirectCalled(r) ==
    LayerAt(handler, Depth(handler)).kind = "Redirect"
        /\ EventsAt(r, "handle", Depth(handler)) # <<>>

\* C13: when the rewrite would produce an inconsistent target (the request
\* target has a path and no scheme, so that setting an authority makes the
\* construction of the URI fail), Redirect.handle panics, it returns no typed
\* error, and no outbound request is issued for that request.
C13_MalformedTargetPanics ==
    \A r \in 1..Len(reqs) :
        (RedirectCalled(r)
            /\ Uri_scheme(reqs[r].request.uri) = None
            /\ Uri_has_path(reqs[r].request.uri)) =>
            /\ reqs[r].state = "panicked"
            /\ reqs[r].fut = None
            /\ reqs[r].outcome = None
            /\ \A i \in 1..Len(reqs[r].log) :
                  reqs[r].log[i].ev # "client.request"
            /\ reqs[r].log[Len(reqs[r].log)].ev = "change_uri"
            /\ reqs[r].log[Len(reqs[r].log)].panic

\* a request in origin form that a Filter admitted and the Redirect panicked
\* on
C13_Witness ==
    \E r \in 1..Len(reqs) :
        /\ handler.kind = "Filter"
        /\ RedirectCalled(r)
        /\ reqs[r].request.uri = OriginUri
        /\ reqs[r].state = "panicked"

(***************************************************************************)
(* Claims about failures (specification Spec).                             *)
(***************************************************************************)
\* The failure inside the Inner wrappers of a FilterError
RECURSIVE Core(_)
Core(e) == IF e.tag = "Inner" THEN Core(e.inner) ELSE e

\* The number of Inner wrappers of a FilterError
RECURSIVE Wrappers(_)
Wrappers(e) == IF e.tag = "Inner" THEN 1 + Wrappers(e.inner) ELSE 0

\* The Filter layers that rejected request r
Rejections(r) == {d \in FilterCalls(r) : ~Admits(r, d)}

\* C14: every failure the root handler produces for a request (Inner or
\* FilteredOut) is that request's outcome at its completion: the handler is
\* invoked once for the request and not again, a failure is not turned into
\* a response, a successful result is relayed as the response unchanged, and
\* each request yields exactly one outcome: a request whose handling is over
\* (it no longer awaits the outbound call) has an outcome, and has it only
\* then.  Fails on a request whose Redirect panics in change_uri (C6): its
\* handling is over and it has no outcome, neither a response nor a failure.
C14_FailuresReachCompletion ==
    \A r \in 1..Len(reqs) :
        /\ Len(EventsAt(r, "handle", 0)) = 1
        /\ reqs[r].state # "pending" => reqs[r].outcome # None
        /\ reqs[r].outcome # None => reqs[r].state = "done"
        /\ reqs[r].state = "done" =>
              LET out == reqs[r].outcome[1]
                  rejected == Rejections(r)
              IN /\ rejected # {} =>
                       /\ ~out.ok
                       /\ Core(out.err).tag = "FilteredOut"
                       /\ Core(out.err).addr = Caller(r)
                       /\ \E d \in rejected : Wrappers(out.err) = d
                       /\ reqs[r].upstream = None
                 /\ rejected = {} =>
                       /\ reqs[r].upstream # None
                       /\ out.ok => out = reqs[r].upstream[1]
                       /\ ~reqs[r].upstream[1].ok =>
                             /\ ~out.ok
                             /\ Core(out.err) = reqs[r].upstream[1].err
                             /\ Wrappers(out.err) = Depth(handler)

\* C15: in the Filter without a callback (src/handlers/filter.rs) the
\* failure of a rejected request, FilteredOut(a, r), carries the caller
\* address a and the request r as they were passed to handle, no rewrite
\* applied, so the caller of the handler chain gets the rejected request back.
C15_FilteredOutCarriesRequest ==
    \A r \in 1..Len(reqs) :
        (handler.rev = "filter.rs" /\ handler.kind = "Filter"
            /\ Rejections(r) # {}) =>
            /\ reqs[r].outcome # None
            /\ ~reqs[r].outcome[1].ok
            /\ LET e == Core(reqs[r].outcome[1].err)
               IN /\ e.tag = "FilteredOut"
                  /\ e.addr = conns[reqs[r].conn]
                  /\ e.request = reqs[r].request
                  /\ e.request.uri = reqs[r].request.uri
                  /\ e.request.method = reqs[r].request.method
                  /\ e.request.body = reqs[r].request.body

\* a rejected POST to an absolute target, found in the failure as it was sent
C15_Witness ==
    \E r \in 1..Len(reqs) :
        /\ handler.rev = "filter.rs" /\ handler.kind = "Filter"
        /\ Rejections(r) = {0}
        /\ reqs[r].request.uri = AbsoluteUri
        /\ reqs[r].outcome[1].err.request.uri = AbsoluteUri
        /\ reqs[r].outcome[1].err.request.method = "POST"

(***************************************************************************)
(* Claims about the configuration and its composition (specification Spec).*)
(***************************************************************************)
\* The admission decisions taken for request r, outermost Filter first
Decisions(r) == SelectSeq(reqs[r].log, LAMBDA e : e.ev = "filter")

\* Requests r and q have the same caller address and the same content
SamePair(r, q) ==
    /\ conns[reqs[r].conn] = conns[reqs[q].conn]
    /\ reqs[r].request = reqs[q].request

\* C16: handling a request never changes the configuration of the handlers:
\* the address set and is_blacklist of every AddrLookupFilter and the
\* destination of the ChangeAuthority stay as they are through every handle
\* call, and two requests with the same caller address and content get the
\* same admission decisions, whenever they are handled.
C16_ConfigurationUnchanged ==
    [][/\ handler' = handler
       /\ \A r, q \in 1..Len(reqs') :
            SamePair(r, q)' => Decisions(r)' = Decisions(q)'
      ]_vars

\* the same caller sends the same request again after the first one failed,
\* and is admitted again
C16_Witness ==
    /\ Len(reqs) = 2
    /\ handler.kind = "Filter"
    /\ SamePair(1, 2)
    /\ reqs[1].outcome = Some(Err(Inner(HyperError)))
    /\ Decisions(2) # <<>> /\ Decisions(2)[1].admitted

\* The decision of the Filter at depth d on caller address a, from its
\* configuration
AdmitsAddr(d, a) ==
    LET f == LayerAt(handler, d).logic
    IN IF f.is_blacklist THEN a \notin f.list ELSE a \in f.list

\* C17: for Filter(F1, inner = Filter(F2, inner = H)), H is invoked iff F1
\* and F2 both admit the request; when F1 rejects, the predicate of F2 is
\* not evaluated and the result is Err(FilteredOut(a)); when F1 admits and
\* F2 rejects, the result is Err(Inner(FilteredOut(a))) with the same caller
\* address a; every layer is handed the same caller address.
C17_NestedFilters ==
    \A r \in 1..Len(reqs) :
        (handler.kind = "Filter" /\ handler.inner.kind = "Filter") =>
            LET a == conns[reqs[r].conn]
                a1 == AdmitsAddr(0, a)
                a2 == AdmitsAddr(1, a)
                log == reqs[r].log
            IN /\ (EventsAt(r, "handle", 2) # <<>>) <=> (a1 /\ a2)
               /\ Len(EventsAt(r, "handle", 2)) <= 1
               /\ \A i \in 1..Len(log) :
                     log[i].ev = "handle" => log[i].from_addr = a
               /\ ~a1 =>
                     /\ EventsAt(r, "filter", 1) = <<>>
                     /\ EventsAt(r, "handle", 1) = <<>>
                     /\ reqs[r].outcome # None
                     /\ ~reqs[r].outcome[1].ok
                     /\ reqs[r].outcome[1].err.tag = "FilteredOut"
                     /\ reqs[r].outcome[1].err.addr = a
               /\ (a1 /\ ~a2) =>
                     /\ Len(EventsAt(r, "filter", 1)) = 1
                     /\ reqs[r].outcome # None
                     /\ ~reqs[r].outcome[1].ok
                     /\ reqs[r].outcome[1].err.tag = "Inner"
                     /\ reqs[r].outcome[1].err.inner.tag = "FilteredOut"
                     /\ reqs[r].outcome[1].err.inner.addr = a

\* a whitelist around a blacklist of the same address: one caller stopped by
\* the inner Filter, another by the outer one
C17_Witness ==
    \E r, q \in 1..Len(reqs) :
        /\ handler.kind = "Filter" /\ handler.inner.kind = "Filter"
        /\ handler.inner.inner.kind = "Redirect"
        /\ AdmitsAddr(0, conns[reqs[r].conn])
        /\ ~AdmitsAddr(1, conns[reqs[r].conn])
        /\ reqs[r].outcome[1].err.tag = "Inner"
        /\ ~AdmitsAddr(0, conns[reqs[q].conn])
        /\ reqs[q].outcome[1].err.tag = "FilteredOut"

\* The requests whose root handler call has failed
Failed(rs) ==
    {r \in 1..Len(rs) : rs[r].outcome # None /\ ~rs[r].outcome[1].ok}

\* C18: a step in which the root handler's result for a request is a failure
\* (FilteredOut or Inner) leaves the server loop in Serving and run_proxy
\* unresolved; while the loop is in Serving after such a failure, a request
\* on any accepted connection can still be handled by the root handler; the
\* loop leaves Serving only in a step of the server future, which is no
\* request's result, and a failure of the loop is Err(Serve).
C18_FailureIsolated ==
    /\ [][/\ Failed(reqs') # Failed(reqs) =>
                /\ pc' = pc /\ result' = result
                /\ State' = "Serving"
          /\ (State = "Serving" /\ State' # "Serving") =>
                /\ reqs' = reqs /\ conns' = conns
                /\ result' \in {"Ok", "Err(Serve)"}
                /\ State' = "Failed" <=> result' = "Err(Serve)"
         ]_vars
    /\ [](/\ State = "Serving"
          /\ Failed(reqs) # {}
          /\ Len(reqs) < MaxRequests
          => \A c \in 1..Len(conns) :
                ENABLED (Serve /\ reqs'[Len(reqs')].conn = c
                               /\ reqs'[Len(reqs')].log # <<>>))

\* a rejected request, then a request on another connection that was relayed
\* and answered, the loop still serving
C18_Witness ==
    /\ State = "Serving" /\ result = "pending"
    /\ \E r, q \in 1..Len(reqs) :
        /\ r < q
        /\ reqs[r].conn # reqs[q].conn
        /\ r \in Failed(reqs)
        /\ reqs[q].outcome # None
        /\ reqs[q].outcome[1].ok

(***************************************************************************)
(* Harness for the pure strategies: one call of AddrLookupFilter::filter   *)
(* or repeated calls of ChangeAuthority::change_uri on one target.         *)
(***************************************************************************)
\* Filter::addr_whitelist / Filter::addr_blacklist: the logic they build
addr_whitelist(whitelist) == [list |-> whitelist, is_blacklist |-> FALSE]
addr_blacklist(whitelist) == [list |-> whitelist, is_blacklist |-> TRUE]

\* The harness runs beside a proxy that was configured and not started
Idle ==
    /\ handler \in HandlersOfDepth("filter.rs", 0)
    /\ NotStarted

InitLookup ==
    /\ Idle
    /\ \E S \in SUBSET SocketAddr, a \in SocketAddr, m \in Methods,
       ctor \in {"addr_whitelist", "addr_blacklist"} :
        call = [fn |-> "filter", ctor |-> ctor,
                logic |-> IF ctor = "addr_whitelist" THEN addr_whitelist(S)
                          ELSE addr_blacklist(S),
                from_addr |-> a,
                request |-> [method |-> m,
                             uri |-> [scheme |-> "", authority |-> "",
                                      path_and_query |-> [path |-> "/a/b/c",
                                                          query |-> None]],
                             body |-> "body"],
                done |-> FALSE, admitted |-> FALSE]

CallFilter ==
    /\ call.fn = "filter"
    /\ ~call.done
    /\ call' = [call EXCEPT !.done = TRUE,
                            !.admitted = AddrLookupFilter_filter(
                                 call.logic, call.from_addr, call.request)]
    /\ UNCHANGED <<handler, pc, result, clients, conns, reqs>>

NextLookup == CallFilter

\* C1: AddrLookupFilter.filter admits a request iff is_blacklist differs from
\* (a in S): a filter built by addr_whitelist admits iff the caller address
\* is in S, one built by addr_blacklist iff it is not in S; membership is of
\* the full socket address, IP and port.
C1_AdmissionIsXorMembership ==
    (call.fn = "filter" /\ call.done) =>
        LET a == call.from_addr
            S == call.logic.list
            member == \E b \in S : b.ip = a.ip /\ b.port = a.port
        IN /\ call.ctor = "addr_whitelist" => (call.admitted <=> member)
           /\ call.ctor = "addr_blacklist" => (call.admitted <=> ~member)
           /\ call.admitted <=> (call.logic.is_blacklist # member)

\* a whitelist that lists the caller's IP with another port rejects
C1_Witness ==
    /\ call.fn = "filter" /\ call.done
    /\ call.ctor = "addr_whitelist"
    /\ ~call.admitted
    /\ \E b \in call.logic.list :
          b.ip = call.from_addr.ip /\ b.port # call.from_addr.port

SpecLookup == InitLookup /\ [][NextLookup]_vars

InitUri ==
    /\ Idle
    /\ \E u \in Uris, to \in Destinations :
        call = [fn |-> "change_uri", to |-> to, uri0 |-> u,
                uri |-> u, panicked |-> FALSE, applied |-> 0]

CallChangeUri ==
    /\ call.fn = "change_uri"
    /\ ~call.panicked
    /\ call.applied < MaxApply
    /\ LET r == ChangeAuthority_change_uri(call.to, call.uri)
       IN call' = IF r.panic
                  THEN [call EXCEPT !.panicked = TRUE,
                                    !.applied = call.applied + 1]
                  ELSE [call EXCEPT !.uri = r.uri,
                                    !.applied = call.applied + 1]
    /\ UNCHANGED <<handler, pc, result, clients, conns, reqs>>

NextUri == CallChangeUri

\* C6: for every request target and every destination, change_uri produces a
\* target whose authority is the destination and whose scheme, path and query
\* are those of the input target.
C6_RewriteReplacesOnlyAuthority ==
    (call.fn = "change_uri" /\ call.applied >= 1) =>
        /\ ~call.panicked
        /\ Uri_authority(call.uri) = Some(call.to)
        /\ Uri_scheme(call.uri) = Uri_scheme(call.uri0)
        /\ Uri_path(call.uri) = Uri_path(call.uri0)
        /\ Uri_query(call.uri) = Uri_query(call.uri0)

\* C7: change_uri is idempotent: applying the rewrite twice in sequence with
\* the same destination yields the target that applying it once yields.
C7_RewriteIdempotent ==
    (call.fn = "change_uri" /\ call.applied >= 2) =>
        LET once == ChangeAuthority_change_uri(call.to, call.uri0)
        IN /\ ~call.panicked
           /\ ~once.panic
           /\ call.uri = once.uri

\* a target rewritten twice that differs from the input target
C7_Witness ==
    /\ call.fn = "change_uri" /\ call.applied = 2
    /\ ~call.panicked
    /\ call.uri # call.uri0
    /\ call.uri0.scheme = "http"

SpecUri == InitUri /\ [][NextUri]_vars

====
